---- MODULE Spec2Model ----
(***************************************************************************)
(* Student attendance CLI (src/pro.py): one SQLite file, one command per   *)
(* process.  The state is the committed content of the database file and   *)
(* the outcome of the last command.  Every command is a pure operator from *)
(* the committed store and its arguments to the store committed when the   *)
(* process has exited, together with the error it ended with.              *)
(***************************************************************************)
EXTENDS Integers, Sequences, FiniteSets, Bags, TLC

VARIABLES db, voc, last

vars == <<db, voc, last>>

\* Python None, stored by sqlite3 as SQL NULL.
None == "None"

----------------------------------------------------------------------------
(* Bounds and input domains *)

\* cap on sqlite_sequence of table sessions (every resolver call takes an id)
MaxSessionId == 2

\* The command lines of one run are drawn from one vocabulary: a class of two
\* students in one course, one student in two courses, one student in one
\* course with every kind of session, one student in one course whose
\* operator also exports and imports CSV files, or the class of three that
\* is marked P, A, L in one fixed batch.  "r9" and "c9" are a roll and a code
\* that are never added; "X" is a status outside P, A, L.
\*   students: add-student <<roll, name, email>>
\*   courses:  add-course <<code, title, teacher>>
\*   sessions: mark <<--start, --end, --topic>>
\*   statuses: the valid STATUS of a ROLL:STATUS pair
\*   bad:      ROLL:STATUS pairs that fail validation
\*   batch:    the longest list of ROLL:STATUS pairs of one mark command
\*   fixed:    lists of ROLL:STATUS pairs given as they are
Roster ==
    [students |-> {<<"r1", "n1", None>>, <<"r2", "n2", "e2">>},
     courses |-> {<<"c1", "t1", None>>},
     sessions |-> {<<None, None, None>>},
     statuses |-> {"P", "A"},
     bad |-> {<<"r1", "X">>, <<"r9", "X">>},
     batch |-> 2,
     fixed |-> {},
     transfer |-> FALSE]
Timetable ==
    [students |-> {<<"r1", "n1", None>>},
     courses |-> {<<"c1", "t1", None>>, <<"c2", "t2", "T2">>},
     sessions |-> {<<"09:00", "10:00", "Intro">>},
     statuses |-> {"P", "A", "L"},
     bad |-> {<<"r1", "X">>, <<"r9", "P">>},
     batch |-> 2,
     fixed |-> {},
     transfer |-> FALSE]
Lecture ==
    [students |-> {<<"r1", "n1", "e1">>},
     courses |-> {<<"c1", "t1", "T1">>},
     sessions |-> {<<None, None, None>>, <<"09:00", "10:00", "Intro">>,
                   <<"09:00", "11:00", "Sets">>},
     statuses |-> {"P", "A", "L"},
     bad |-> {<<"r1", "X">>, <<"r9", "X">>},
     batch |-> 2,
     fixed |-> {},
     transfer |-> FALSE]
Archive ==
    [students |-> {<<"r1", "n1", None>>},
     courses |-> {<<"c1", "t1", None>>},
     sessions |-> {<<None, None, None>>},
     statuses |-> {"P"},
     bad |-> {<<"r1", "X">>},
     batch |-> 2,
     fixed |-> {},
     transfer |-> TRUE]
Register ==
    [students |-> {<<"CS001", "n1", None>>, <<"CS002", "n2", None>>,
                   <<"CS003", "n3", None>>},
     courses |-> {<<"CSE101", "t1", None>>},
     sessions |-> {<<"09:00", None, None>>},
     statuses |-> {},
     bad |-> {},
     batch |-> 0,
     fixed |-> {<<<<"CS001", "P">>, <<"CS002", "A">>, <<"CS003", "L">>>>},
     transfer |-> FALSE]
Vocabularies == {Roster, Timetable, Lecture, Archive, Register}

RollArgs(v) == {a[1] : a \in v.students} \cup {"r9"}
CodeArgs(v) == {a[1] : a \in v.courses} \cup {"c9"}
Dates == {"2024-01-10"}
\* report-daily dates: the date of the marks and a date without sessions
ReportDates == Dates \cup {"2024-01-11"}
\* report-daily --course: a code, or None when the option is not given
CourseFilters(v) == CodeArgs(v) \cup {None}
\* datetime.now() at second precision
Clock == {"T1"}
\* ROLL:STATUS pairs after parse_marks_args
MarkPairs(v) == ({a[1] : a \in v.students} \X v.statuses) \cup v.bad
MarkLists(v) == v.fixed \cup UNION {[1..n -> MarkPairs(v)] : n \in 1..v.batch}
\* mark command lines: <<course_code, date, marks, --start, --end, --topic>>
MarkArgs(v) ==
    {<<a[1], d, m, sa[1], sa[2], sa[3]>> :
        a \in v.courses, d \in Dates, m \in MarkLists(v), sa \in v.sessions}
    \cup {<<"c9", d, <<<<"r1", "P">>>>, None, None, None>> : d \in Dates}

----------------------------------------------------------------------------
(* Helpers *)

Max(S) == CHOOSE x \in S : \A y \in S : y <= x
Min(S) == CHOOSE x \in S : \A y \in S : x <= y

\* AUTOINCREMENT: one more than the largest rowid ever used in the table
NextRowid(seq, rows) == Max({seq} \cup {r.id : r \in rows}) + 1

\* cursor.fetchone() returning None: no rowid is 0
NoRow == 0

\* cursor.fetchone() of "SELECT id FROM <table> WHERE ..." read through an
\* index: equal keys come in rowid order, so the first row has the least id
FetchOneId(rows) == IF rows = {} THEN NoRow ELSE Min({r.id : r \in rows})

\* sqlite3.IntegrityError: a UNIQUE constraint (add-student, add-course), a
\* FOREIGN KEY constraint or a CHECK constraint failed
IntegrityErrors == {"IntegrityError", "ForeignKeyFailed", "CheckFailed"}

\* exit status of the process for the error a command ended with
ExitCode(err) ==
    CASE err = "ok" -> 0
      [] err \in IntegrityErrors -> 2
      [] OTHER -> 1

----------------------------------------------------------------------------
(* Schema *)

EmptyDb ==
    [students |-> {}, courses |-> {}, enrollments |-> EmptyBag,
     sessions |-> {}, attendance |-> {},
     seq |-> [students |-> 0, courses |-> 0, sessions |-> 0]]

----------------------------------------------------------------------------
(* Entity operations *)

\* mutant: the UNIQUE constraint on roll is missing
add_student_NoUnique(s, roll, name, email) ==
    LET id == NextRowid(s.seq.students, s.students)
    IN  [db |-> [s EXCEPT !.students = @ \cup
                     {[id |-> id, roll |-> roll, name |-> name, email |-> email]},
                   !.seq.students = id],
         err |-> "ok"]

add_student(s, roll, name, email) ==
    IF \E st \in s.students : st.roll = roll
    THEN [db |-> s, err |-> "IntegrityError"]
    ELSE LET id == NextRowid(s.seq.students, s.students)
         IN  [db |-> [s EXCEPT !.students = @ \cup
                          {[id |-> id, roll |-> roll, name |-> name, email |-> email]},
                        !.seq.students = id],
              err |-> "ok"]

add_course(s, code, title, teacher) ==
    IF \E c \in s.courses : c.code = code
    THEN [db |-> s, err |-> "IntegrityError"]
    ELSE LET id == NextRowid(s.seq.courses, s.courses)
         IN  [db |-> [s EXCEPT !.courses = @ \cup
                          {[id |-> id, code |-> code, title |-> title, teacher |-> teacher]},
                        !.seq.courses = id],
              err |-> "ok"]

\* mutant: a plain INSERT into a table without the primary key
InsertEnrollment_Plain(enr, student_id, course_id) ==
    enr (+) SetToBag({[student_id |-> student_id, course_id |-> course_id]})

\* INSERT OR IGNORE INTO enrollments: the row is dropped when the primary
\* key (student_id, course_id) is already present
InsertOrIgnoreEnrollment(enr, student_id, course_id) ==
    LET row == [student_id |-> student_id, course_id |-> course_id]
    IN  IF BagIn(row, enr) THEN enr ELSE enr (+) SetToBag({row})

enroll_student(s, roll, course_code) ==
    LET student_id == FetchOneId({st \in s.students : st.roll = roll})
        course_id == FetchOneId({c \in s.courses : c.code = course_code})
    IN  IF student_id = NoRow THEN [db |-> s, err |-> "StudentNotFound"]
        ELSE IF course_id = NoRow THEN [db |-> s, err |-> "CourseNotFound"]
        ELSE [db |-> [s EXCEPT !.enrollments =
                         InsertOrIgnoreEnrollment(@, student_id, course_id)],
              err |-> "ok"]

----------------------------------------------------------------------------
(* Session resolver *)

\* mutant: the UNIQUE constraint on sessions is missing
SessionConflict_Never(sessions, course_id, session_date, start_time) == FALSE

\* UNIQUE(course_id, session_date, start_time): SQLite holds two NULLs to
\* be distinct, so a row without start_time conflicts with no row
SessionConflict(sessions, course_id, session_date, start_time) ==
    \E se \in sessions :
        /\ se.course_id = course_id
        /\ se.session_date = session_date
        /\ start_time # None
        /\ se.start_time = start_time

\* mutant: INSERT ... ON CONFLICT DO UPDATE SET end_time, topic
InsertOrUpdateSession(s, course_id, session_date, start_time, end_time, topic) ==
    LET id == NextRowid(s.seq.sessions, s.sessions)
        row == [id |-> id, course_id |-> course_id, session_date |-> session_date,
                start_time |-> start_time, end_time |-> end_time, topic |-> topic]
        hit == {se \in s.sessions :
                   SessionConflict({se}, course_id, session_date, start_time)}
    IN  IF hit = {}
        THEN [s EXCEPT !.sessions = @ \cup {row}, !.seq.sessions = id]
        ELSE [s EXCEPT !.sessions = (@ \ hit) \cup
                           {[se EXCEPT !.end_time = end_time, !.topic = topic] :
                               se \in hit},
                       !.seq.sessions = id]

\* INSERT OR IGNORE INTO sessions; connection.commit().  The rowid is drawn
\* and recorded in sqlite_sequence also when the row is ignored.
InsertOrIgnoreSession(s, course_id, session_date, start_time, end_time, topic) ==
    LET id == NextRowid(s.seq.sessions, s.sessions)
        row == [id |-> id, course_id |-> course_id, session_date |-> session_date,
                start_time |-> start_time, end_time |-> end_time, topic |-> topic]
    IN  IF SessionConflict(s.sessions, course_id, session_date, start_time)
        THEN [s EXCEPT !.seq.sessions = id]
        ELSE [s EXCEPT !.sessions = @ \cup {row}, !.seq.sessions = id]

\* mutant: a course that is not stored is created on the way
ensure_course_session_CreatesCourse(s, course_code, session_date, start_time, end_time, topic) ==
    LET u == IF \E c \in s.courses : c.code = course_code
             THEN s
             ELSE add_course(s, course_code, course_code, None).db
        course_id == FetchOneId({c \in u.courses : c.code = course_code})
        t == InsertOrIgnoreSession(u, course_id, session_date,
                                   start_time, end_time, topic)
        session_id == FetchOneId({se \in t.sessions :
                          /\ se.course_id = course_id
                          /\ se.session_date = session_date
                          /\ se.start_time = start_time})
    IN  [db |-> t, session_id |-> session_id, err |-> "ok"]

\* "start_time IS ?" matches NULL with NULL
ensure_course_session(s, course_code, session_date, start_time, end_time, topic) ==
    LET course_id == FetchOneId({c \in s.courses : c.code = course_code})
    IN  IF course_id = NoRow
        THEN [db |-> s, session_id |-> NoRow, err |-> "CourseNotFound"]
        ELSE LET t == InsertOrIgnoreSession(s, course_id, session_date,
                                            start_time, end_time, topic)
                 session_id == FetchOneId({se \in t.sessions :
                                   /\ se.course_id = course_id
                                   /\ se.session_date = session_date
                                   /\ se.start_time = start_time})
             IN  [db |-> t, session_id |-> session_id, err |-> "ok"]

----------------------------------------------------------------------------
(* Attendance upsert engine *)

\* mutant: ON CONFLICT(session_id, student_id) DO NOTHING
Upsert_KeepsFirst(att, session_id, student_id, status, marked_at) ==
    IF \E a \in att : a.session_id = session_id /\ a.student_id = student_id
    THEN att
    ELSE att \cup {[session_id |-> session_id, student_id |-> student_id,
                    status |-> status, marked_at |-> marked_at]}

\* INSERT INTO attendance ... ON CONFLICT(session_id, student_id) DO UPDATE
Upsert(att, session_id, student_id, status, marked_at) ==
    LET row == [session_id |-> session_id, student_id |-> student_id,
                status |-> status, marked_at |-> marked_at]
        hit == {a \in att : a.session_id = session_id /\ a.student_id = student_id}
    IN  IF hit = {} THEN att \cup {row} ELSE (att \ hit) \cup {row}

\* mutant: the enrollment query leaves out the course
Enrolled_AnyCourse(w, student_id, course_id) ==
    \E e \in BagToSet(w.enrollments) : e.student_id = student_id

\* mutant: the enrollment check is skipped
Enrolled_Always(w, student_id, course_id) == TRUE

\* "SELECT 1 FROM enrollments WHERE student_id=? AND course_id=?" has a row
Enrolled(w, student_id, course_id) ==
    BagIn([student_id |-> student_id, course_id |-> course_id], w.enrollments)

\* mutant: the connection is in autocommit mode, every upsert is kept
Rollback_Keeps(c, w) == w

\* SystemExit before connection.commit(): the process ends with the
\* transaction open and the file keeps what was last committed
Rollback(c, w) == c

\* mutant: the roll is looked up before the status is checked
RECURSIVE MarkLoop_RollFirst(_, _, _, _, _, _, _)
MarkLoop_RollFirst(c, w, marks, i, session_id, course_id, now) ==
    IF i > Len(marks)
    THEN [db |-> w, err |-> "ok", student_id |-> NoRow, rolled_back |-> FALSE]
    ELSE LET roll == marks[i][1]
             status == marks[i][2]
             student_id == FetchOneId({st \in w.students : st.roll = roll})
             Exit(err) == [db |-> Rollback(c, w), err |-> err, student_id |-> student_id,
                           rolled_back |-> w # c]
         IN  IF student_id = NoRow THEN Exit("UnknownRoll")
             ELSE IF status \notin {"P", "A", "L"} THEN Exit("BadStatus")
             ELSE IF ~Enrolled(w, student_id, course_id) THEN Exit("NotEnrolled")
             ELSE MarkLoop_RollFirst(c,
                           [w EXCEPT !.attendance =
                               Upsert(@, session_id, student_id, status, now)],
                           marks, i + 1, session_id, course_id, now)

\* The loop over marks from pair i on.  w is the connection's view with the
\* upserts made so far, c the store as last committed.  SystemExit leaves
\* the open transaction uncommitted and the process exit rolls it back.
RECURSIVE MarkLoop(_, _, _, _, _, _, _)
MarkLoop(c, w, marks, i, session_id, course_id, now) ==
    IF i > Len(marks)
    THEN [db |-> w, err |-> "ok", student_id |-> NoRow, rolled_back |-> FALSE]
    ELSE LET roll == marks[i][1]
             status == marks[i][2]
             student_id == FetchOneId({st \in w.students : st.roll = roll})
             Exit(err) == [db |-> Rollback(c, w), err |-> err, student_id |-> student_id,
                           rolled_back |-> w # c]
         IN  IF status \notin {"P", "A", "L"} THEN Exit("BadStatus")
             ELSE IF student_id = NoRow THEN Exit("UnknownRoll")
             ELSE IF ~Enrolled(w, student_id, course_id) THEN Exit("NotEnrolled")
             ELSE MarkLoop(c,
                           [w EXCEPT !.attendance =
                               Upsert(@, session_id, student_id, status, now)],
                           marks, i + 1, session_id, course_id, now)

mark_attendance(s, course_code, session_date, marks, start_time, end_time, topic, now) ==
    LET e == ensure_course_session(s, course_code, session_date,
                                   start_time, end_time, topic)
    IN  IF e.err # "ok"
        THEN [db |-> e.db, session_id |-> NoRow, err |-> e.err, student_id |-> NoRow,
              rolled_back |-> FALSE]
        ELSE LET course_id == FetchOneId({c \in e.db.courses : c.code = course_code})
                 r == MarkLoop(e.db, e.db, marks, 1, e.session_id, course_id, now)
             IN  [db |-> r.db, session_id |-> e.session_id, err |-> r.err,
                  student_id |-> r.student_id, rolled_back |-> r.rolled_back]

\* per student named in a batch, the status of the last pair naming the roll
LastMarks(s, marks) ==
    {<<FetchOneId({st \in s.students : st.roll = marks[i][1]}), marks[i][2]>> :
        i \in {j \in DOMAIN marks :
                  \A k \in DOMAIN marks : k > j => marks[k][1] # marks[j][1]}}

----------------------------------------------------------------------------
(* Aggregation and reporting *)

\* mutant: a course without sessions counts as fully attended
Percentage_EmptyIsFull(attended, total_sessions) ==
    IF total_sessions > 0
    THEN (2 * attended * 10000 + total_sessions) \div (2 * total_sessions)
    ELSE 10000

\* round(attended / total_sessions * 100.0, 2), in hundredths of a percent
Percentage(attended, total_sessions) ==
    IF total_sessions > 0
    THEN (2 * attended * 10000 + total_sessions) \div (2 * total_sessions)
    ELSE 0

\* BINARY collation of the text values in use, least first
Collation ==
    <<"", "09:00", "10:00", "11:00", "2024-01-10", "2024-01-11", "CS001",
      "CS002", "CS003", "CSE101", "Intro", "Sets", "T1", "T2", "c1", "c2", "c9",
      "e1", "e2", "n1", "n2", "n3", "r1", "r2", "r9", "t1", "t2">>
StrRank(str) == CHOOSE i \in DOMAIN Collation : Collation[i] = str

\* mutant: ORDER BY ... DESC
RECURSIVE OrderBy_Descending(_, _)
OrderBy_Descending(S, key) ==
    IF S = {} THEN <<>>
    ELSE LET m == CHOOSE x \in S : \A y \in S : key[x] >= key[y]
         IN  <<m>> \o OrderBy_Descending(S \ {m}, key)

\* the rows of S as a list, least key first (ORDER BY)
RECURSIVE OrderBy(_, _)
OrderBy(S, key) ==
    IF S = {} THEN <<>>
    ELSE LET m == CHOOSE x \in S : \A y \in S : key[x] <= key[y]
         IN  <<m>> \o OrderBy(S \ {m}, key)

\* students s JOIN enrollments e LEFT JOIN attendance a ON a.student_id = s.id
\* LEFT JOIN sessions se ON se.id = a.session_id AND se.course_id = ?
\* for one student: one joined row per enrollment row and attendance row of
\* the student; the join with sessions drops none of them
StatusCount(s, student_id, course_id, status) ==
    CopiesIn([student_id |-> student_id, course_id |-> course_id], s.enrollments)
        * Cardinality({a \in s.attendance :
                           a.student_id = student_id /\ a.status = status})

fetch_course_stats(s, course_code) ==
    LET course_id == FetchOneId({c \in s.courses : c.code = course_code})
        total_sessions == Cardinality({se \in s.sessions : se.course_id = course_id})
        enrolled == {st \in s.students :
                        BagIn([student_id |-> st.id, course_id |-> course_id],
                              s.enrollments)}
        Row(st) ==
            LET present == StatusCount(s, st.id, course_id, "P")
                absent == StatusCount(s, st.id, course_id, "A")
                late == StatusCount(s, st.id, course_id, "L")
            IN  [roll |-> st.roll, name |-> st.name, present |-> present,
                 absent |-> absent, late |-> late,
                 percentage |-> Percentage(present + late, total_sessions)]
        ordered == OrderBy(enrolled, [st \in enrolled |-> StrRank(st.roll) * 10 + st.id])
    IN  IF course_id = NoRow
        THEN [err |-> "CourseNotFound", total_sessions |-> 0, total_students |-> 0,
              rows |-> <<>>]
        ELSE [err |-> "ok", total_sessions |-> total_sessions,
              total_students |-> Len(ordered),
              rows |-> [i \in DOMAIN ordered |-> Row(ordered[i])]]

\* mutant: attendance joined on the student only, whatever the session
CourseStatusCount_AnySession(s, student_id, course_id, status) ==
    CopiesIn([student_id |-> student_id, course_id |-> course_id], s.enrollments)
        * Cardinality({a \in s.attendance :
                           a.student_id = student_id /\ a.status = status})

\* courses c JOIN enrollments e LEFT JOIN sessions se ON se.course_id = c.id
\* LEFT JOIN attendance a ON a.session_id = se.id AND a.student_id = ?
\* for one course: the joined rows that carry an attendance row with the
\* status, one per enrollment row, session of the course and attendance row
\* of the student in that session
CourseStatusCount(s, student_id, course_id, status) ==
    CopiesIn([student_id |-> student_id, course_id |-> course_id], s.enrollments)
        * Cardinality({<<se, a>> \in
              {x \in s.sessions : x.course_id = course_id}
                  \X {y \in s.attendance : y.student_id = student_id} :
              a.session_id = se.id /\ a.status = status})

\* the rows report_student prints, percentage as formatted by :.2f
report_student(s, roll) ==
    LET student_id == FetchOneId({st \in s.students : st.roll = roll})
        enrolled == {c \in s.courses :
                        BagIn([student_id |-> student_id, course_id |-> c.id],
                              s.enrollments)}
        Row(c) ==
            LET present == CourseStatusCount(s, student_id, c.id, "P")
                absent == CourseStatusCount(s, student_id, c.id, "A")
                late == CourseStatusCount(s, student_id, c.id, "L")
                total_sessions == Cardinality({se \in s.sessions : se.course_id = c.id})
            IN  [code |-> c.code, present |-> present, absent |-> absent,
                 late |-> late,
                 percentage |-> Percentage(present + late, total_sessions)]
        ordered == OrderBy(enrolled, [c \in enrolled |-> StrRank(c.code) * 10 + c.id])
    IN  IF student_id = NoRow
        THEN [err |-> "StudentNotFound", rows |-> <<>>]
        ELSE [err |-> "ok", rows |-> [i \in DOMAIN ordered |-> Row(ordered[i])]]

\* NULL sorts before every text value
SqlRank(v) == IF v = None THEN 0 ELSE StrRank(v)

\* "x or ''" before printing
OrBlank(v) == IF v = None THEN "" ELSE v

\* mutant: attendance and students are joined with JOIN, not LEFT JOIN
DailyJoin_Inner(s, S) ==
    UNION {{[se |-> se, student_id |-> a.student_id, status |-> a.status,
             roll |-> st.roll, name |-> st.name] :
               st \in {x \in s.students : x.id = a.student_id}} :
          <<se, a>> \in {y \in S \X s.attendance : y[2].session_id = y[1].id}}

\* sessions se LEFT JOIN attendance a ON a.session_id = se.id
\* LEFT JOIN students s ON s.id = a.student_id, for the sessions S: a
\* session without attendance rows is kept once, with NULLs
DailyJoin(s, S) ==
    LET Joined(se, a) ==
            LET found == {x \in s.students : x.id = a.student_id}
            IN  IF found = {}
                THEN {[se |-> se, student_id |-> a.student_id, status |-> a.status,
                       roll |-> None, name |-> None]}
                ELSE {[se |-> se, student_id |-> a.student_id, status |-> a.status,
                       roll |-> st.roll, name |-> st.name] : st \in found}
        Of(se) == {a \in s.attendance : a.session_id = se.id}
    IN  UNION {IF Of(se) = {}
               THEN {[se |-> se, student_id |-> NoRow, status |-> None,
                      roll |-> None, name |-> None]}
               ELSE UNION {Joined(se, a) : a \in Of(se)} : se \in S}

\* the rows report_daily prints; course_code is None without --course.
\* ORDER BY c.code, se.start_time, s.roll; rows equal in all three are
\* taken in the order of session id and student id.
report_daily(s, session_date, course_code) ==
    LET filtered == course_code # None /\ course_code # ""
        course_id == FetchOneId({c \in s.courses : c.code = course_code})
        S == {se \in s.sessions :
                 /\ se.session_date = session_date
                 /\ filtered => se.course_id = course_id
                 /\ \E c \in s.courses : c.id = se.course_id}
        Code(se) == (CHOOSE c \in s.courses : c.id = se.course_id).code
        joined == DailyJoin(s, S)
        K == Len(Collation) + 1
        ordered == OrderBy(joined,
                      [j \in joined |->
                          ((SqlRank(Code(j.se)) * K + SqlRank(j.se.start_time)) * K
                               + SqlRank(j.roll)) * 100
                          + j.se.id * 10 + j.student_id])
    IN  IF filtered /\ course_id = NoRow
        THEN [err |-> "CourseNotFound", rows |-> <<>>]
        ELSE [err |-> "ok",
              rows |-> [i \in DOMAIN ordered |->
                          [code |-> Code(ordered[i].se), sid |-> ordered[i].se.id,
                           start_time |-> OrBlank(ordered[i].se.start_time),
                           topic |-> OrBlank(ordered[i].se.topic),
                           roll |-> OrBlank(ordered[i].roll),
                           name |-> OrBlank(ordered[i].name),
                           status |-> OrBlank(ordered[i].status)]]]

----------------------------------------------------------------------------
(* Bulk transfer *)

\* csv.writer: str() of an integer; None is written as the empty field
Digits == <<"0", "1", "2", "3", "4", "5", "6", "7", "8", "9">>
IntCell(n) == Digits[n + 1]
TextCell(v) == IF v = None THEN "" ELSE v

\* a column of INTEGER affinity turns the text of an integer into the integer
IntegerAffinity(cell) == (CHOOSE i \in DOMAIN Digits : Digits[i] = cell) - 1

\* every copy of every row of a bag, the rows in the given order
RECURSIVE Copies(_, _, _)
Copies(ordered, bag, i) ==
    IF i > Len(ordered) THEN <<>>
    ELSE [k \in 1..CopiesIn(ordered[i], bag) |-> ordered[i]] \o Copies(ordered, bag, i + 1)

\* the five files written by export_csv, header cells as field names
export_csv(s) ==
    LET students == OrderBy(s.students,
                        [r \in s.students |-> StrRank(r.roll) * 10 + r.id])
        courses == OrderBy(s.courses,
                        [r \in s.courses |-> StrRank(r.code) * 10 + r.id])
        enrset == BagToSet(s.enrollments)
        enrollments == Copies(OrderBy(enrset,
                        [r \in enrset |-> r.course_id * 10 + r.student_id]),
                        s.enrollments, 1)
        sessions == OrderBy(s.sessions,
                        [r \in s.sessions |->
                            StrRank(r.session_date) * 100 + r.course_id * 10 + r.id])
        attendance == OrderBy(s.attendance,
                        [r \in s.attendance |-> r.session_id * 10 + r.student_id])
    IN  [students |->
            [i \in DOMAIN students |->
                [id |-> IntCell(students[i].id), roll |-> students[i].roll,
                 name |-> students[i].name, email |-> TextCell(students[i].email)]],
         courses |->
            [i \in DOMAIN courses |->
                [id |-> IntCell(courses[i].id), code |-> courses[i].code,
                 title |-> courses[i].title, teacher |-> TextCell(courses[i].teacher)]],
         enrollments |->
            [i \in DOMAIN enrollments |->
                [student_id |-> IntCell(enrollments[i].student_id),
                 course_id |-> IntCell(enrollments[i].course_id)]],
         sessions |->
            [i \in DOMAIN sessions |->
                [id |-> IntCell(sessions[i].id),
                 course_id |-> IntCell(sessions[i].course_id),
                 session_date |-> sessions[i].session_date,
                 start_time |-> TextCell(sessions[i].start_time),
                 end_time |-> TextCell(sessions[i].end_time),
                 topic |-> TextCell(sessions[i].topic)]],
         attendance |->
            [i \in DOMAIN attendance |->
                [session_id |-> IntCell(attendance[i].session_id),
                 student_id |-> IntCell(attendance[i].student_id),
                 status |-> attendance[i].status,
                 marked_at |-> attendance[i].marked_at]]]

FileNames == {"students", "courses", "enrollments", "sessions", "attendance"}

\* ON DELETE CASCADE, also for the rows REPLACE deletes
DeleteSessions(w, ids) ==
    [w EXCEPT !.sessions = {se \in @ : se.id \notin ids},
              !.attendance = {a \in @ : a.session_id \notin ids}]

DeleteStudents(w, ids) ==
    LET gone == {e \in BagToSet(w.enrollments) : e.student_id \in ids}
    IN  [w EXCEPT !.students = {st \in @ : st.id \notin ids},
                  !.enrollments = [e \in BagToSet(@) \ gone |-> CopiesIn(e, @)],
                  !.attendance = {a \in @ : a.student_id \notin ids}]

DeleteCourses(w, ids) ==
    LET gone == {e \in BagToSet(w.enrollments) : e.course_id \in ids}
        v == [w EXCEPT !.courses = {c \in @ : c.id \notin ids},
                       !.enrollments = [e \in BagToSet(@) \ gone |-> CopiesIn(e, @)]]
    IN  DeleteSessions(v, {se.id : se \in {x \in w.sessions : x.course_id \in ids}})

\* One INSERT of import_csv on the connection's view w: the view after it,
\* or an error.  REPLACE first deletes every row in conflict on the primary
\* key or on a UNIQUE column set; a broken foreign key or CHECK fails.
ImportStudent(w, row) ==
    LET id == IntegerAffinity(row.id)
        hit == {st.id : st \in {x \in w.students : x.id = id \/ x.roll = row.roll}}
        v == DeleteStudents(w, hit)
    IN  [db |-> [v EXCEPT !.students = @ \cup
                     {[id |-> id, roll |-> row.roll, name |-> row.name,
                       email |-> row.email]},
                   !.seq.students = Max({@, id})],
         err |-> "ok"]

ImportCourse(w, row) ==
    LET id == IntegerAffinity(row.id)
        hit == {c.id : c \in {x \in w.courses : x.id = id \/ x.code = row.code}}
        v == DeleteCourses(w, hit)
    IN  [db |-> [v EXCEPT !.courses = @ \cup
                     {[id |-> id, code |-> row.code, title |-> row.title,
                       teacher |-> row.teacher]},
                   !.seq.courses = Max({@, id})],
         err |-> "ok"]

ImportEnrollment(w, row) ==
    LET student_id == IntegerAffinity(row.student_id)
        course_id == IntegerAffinity(row.course_id)
    IN  IF BagIn([student_id |-> student_id, course_id |-> course_id], w.enrollments)
        THEN [db |-> w, err |-> "ok"]
        ELSE IF \/ student_id \notin {st.id : st \in w.students}
                \/ course_id \notin {c.id : c \in w.courses}
        THEN [db |-> w, err |-> "ForeignKeyFailed"]
        ELSE [db |-> [w EXCEPT !.enrollments =
                         InsertOrIgnoreEnrollment(@, student_id, course_id)],
              err |-> "ok"]

ImportSession(w, row) ==
    LET id == IntegerAffinity(row.id)
        course_id == IntegerAffinity(row.course_id)
        hit == {se.id : se \in {x \in w.sessions :
                   \/ x.id = id
                   \/ SessionConflict({x}, course_id, row.session_date, row.start_time)}}
        v == DeleteSessions(w, hit)
    IN  IF course_id \notin {c.id : c \in w.courses}
        THEN [db |-> w, err |-> "ForeignKeyFailed"]
        ELSE [db |-> [v EXCEPT !.sessions = @ \cup
                         {[id |-> id, course_id |-> course_id,
                           session_date |-> row.session_date,
                           start_time |-> row.start_time,
                           end_time |-> row.end_time, topic |-> row.topic]},
                       !.seq.sessions = Max({@, id})],
              err |-> "ok"]

\* mutant: the connection is opened without PRAGMA foreign_keys = ON
ImportAttendance_NoForeignKeys(w, row) ==
    LET session_id == IntegerAffinity(row.session_id)
        student_id == IntegerAffinity(row.student_id)
        hit == {a \in w.attendance :
                   a.session_id = session_id /\ a.student_id = student_id}
    IN  IF row.status \notin {"P", "A", "L"}
        THEN [db |-> w, err |-> "CheckFailed"]
        ELSE [db |-> [w EXCEPT !.attendance = (@ \ hit) \cup
                         {[session_id |-> session_id, student_id |-> student_id,
                           status |-> row.status, marked_at |-> row.marked_at]}],
              err |-> "ok"]

\* mutant: the table is created without CHECK (status IN ('P','A','L'))
ImportAttendance_NoCheck(w, row) ==
    LET session_id == IntegerAffinity(row.session_id)
        student_id == IntegerAffinity(row.student_id)
        hit == {a \in w.attendance :
                   a.session_id = session_id /\ a.student_id = student_id}
    IN  IF \/ session_id \notin {se.id : se \in w.sessions}
           \/ student_id \notin {st.id : st \in w.students}
        THEN [db |-> w, err |-> "ForeignKeyFailed"]
        ELSE [db |-> [w EXCEPT !.attendance = (@ \ hit) \cup
                         {[session_id |-> session_id, student_id |-> student_id,
                           status |-> row.status, marked_at |-> row.marked_at]}],
              err |-> "ok"]

\* the CHECK on status is evaluated on the row, the foreign keys after it
ImportAttendance(w, row) ==
    LET session_id == IntegerAffinity(row.session_id)
        student_id == IntegerAffinity(row.student_id)
        hit == {a \in w.attendance :
                   a.session_id = session_id /\ a.student_id = student_id}
    IN  IF row.status \notin {"P", "A", "L"}
        THEN [db |-> w, err |-> "CheckFailed"]
        ELSE IF \/ session_id \notin {se.id : se \in w.sessions}
                \/ student_id \notin {st.id : st \in w.students}
        THEN [db |-> w, err |-> "ForeignKeyFailed"]
        ELSE [db |-> [w EXCEPT !.attendance = (@ \ hit) \cup
                         {[session_id |-> session_id, student_id |-> student_id,
                           status |-> row.status, marked_at |-> row.marked_at]}],
              err |-> "ok"]

ImportRow(w, file, row) ==
    CASE file = "students" -> ImportStudent(w, row)
      [] file = "courses" -> ImportCourse(w, row)
      [] file = "enrollments" -> ImportEnrollment(w, row)
      [] file = "sessions" -> ImportSession(w, row)
      [] file = "attendance" -> ImportAttendance(w, row)

\* the rows of one file from row i on; the first error ends the import
RECURSIVE ImportFile(_, _, _, _)
ImportFile(w, file, rows, i) ==
    IF i > Len(rows) THEN [db |-> w, err |-> "ok"]
    ELSE LET r == ImportRow(w, file, rows[i])
         IN  IF r.err # "ok" THEN r ELSE ImportFile(r.db, file, rows, i + 1)

\* the files in the order import_csv reads them, those missing skipped
ImportOrder == <<"students", "courses", "enrollments", "sessions", "attendance">>

RECURSIVE ImportFiles(_, _, _, _)
ImportFiles(w, dir, present, k) ==
    IF k > Len(ImportOrder) THEN [db |-> w, err |-> "ok"]
    ELSE IF ImportOrder[k] \notin present THEN ImportFiles(w, dir, present, k + 1)
    ELSE LET r == ImportFile(w, ImportOrder[k], dir[ImportOrder[k]], 1)
         IN  IF r.err # "ok" THEN r ELSE ImportFiles(r.db, dir, present, k + 1)

\* import_csv from a directory holding the files named in present; the one
\* commit is the last statement, so an error leaves the file as it was
import_csv(s, dir, present) ==
    LET r == ImportFiles(s, dir, present, 1)
    IN  IF r.err # "ok" THEN [db |-> s, err |-> r.err] ELSE r

\* an input directory holding none of the files
NoFiles ==
    [students |-> <<>>, courses |-> <<>>, enrollments |-> <<>>,
     sessions |-> <<>>, attendance |-> <<>>]

\* files written by hand, <<file, its one row>>: an attendance row with a
\* status outside P, A, L, rows that name a student, a session or a course
\* that is not stored, and the student r1 under another id
HandWritten ==
    {<<"attendance",
       [session_id |-> "1", student_id |-> "1", status |-> "X", marked_at |-> "T1"]>>,
     <<"attendance",
       [session_id |-> "1", student_id |-> "9", status |-> "P", marked_at |-> "T1"]>>,
     <<"attendance",
       [session_id |-> "9", student_id |-> "1", status |-> "P", marked_at |-> "T1"]>>,
     <<"enrollments", [student_id |-> "9", course_id |-> "1"]>>,
     <<"sessions",
       [id |-> "1", course_id |-> "9", session_date |-> "2024-01-10",
        start_time |-> "", end_time |-> "", topic |-> ""]>>,
     <<"students", [id |-> "2", roll |-> "r1", name |-> "n1", email |-> ""]>>}

\* import-csv input: <<directory, files it holds>>, either some of the
\* files of an export of the store or one file written by hand
ImportArgs(s) ==
    {<<dir, present>> : dir \in {export_csv(s)}, present \in SUBSET FileNames}
    \cup {<<[NoFiles EXCEPT ![h[1]] = <<h[2]>>], {h[1]}>> : h \in HandWritten}

----------------------------------------------------------------------------
(* Commands: one process each *)

\* the tables whose rows differ between two stores
Touched(s, t) == {f \in FileNames : s[f] # t[f]}

\* what the last process did: its command, the error it ended with, the
\* tables it changed, and for mark the session it resolved, the student of
\* the pair it failed on, whether upserts were rolled back, per student the
\* status of the last pair naming the student, whether two pairs named one
\* roll with different statuses, whether a pair named a student who is
\* not enrolled in the course, the --end and --topic it was given, whether a
\* pair carried a status outside P, A, L, and the error of the first check
\* that the first pair failing a check fails
Outcome(cmd, s, r) ==
    [cmd |-> cmd, err |-> r.err, touched |-> Touched(s, r.db),
     session_id |-> NoRow, student_id |-> NoRow, rolled_back |-> FALSE,
     marked |-> {}, repeats |-> FALSE, unenrolled |-> FALSE,
     given |-> <<None, None>>, invalid |-> FALSE, expected |-> r.err]

Repeats(marks) ==
    \E i, j \in DOMAIN marks :
        i < j /\ marks[i][1] = marks[j][1] /\ marks[i][2] # marks[j][2]

NamesUnenrolled(s, course_code, marks) ==
    \E i \in DOMAIN marks, st \in s.students, c \in s.courses :
        /\ st.roll = marks[i][1]
        /\ c.code = course_code
        /\ ~BagIn([student_id |-> st.id, course_id |-> c.id], s.enrollments)

Invalid(marks) == \E i \in DOMAIN marks : marks[i][2] \notin {"P", "A", "L"}

\* the checks of the loop a ROLL:STATUS pair does not pass
Fails(s, course_code, pair) ==
    {f \in {"BadStatus"} : pair[2] \notin {"P", "A", "L"}}
    \cup {f \in {"UnknownRoll"} : \A st \in s.students : st.roll # pair[1]}
    \cup {f \in {"NotEnrolled"} :
            \A st \in s.students, c \in s.courses :
                (st.roll = pair[1] /\ c.code = course_code) =>
                    ~BagIn([student_id |-> st.id, course_id |-> c.id], s.enrollments)}

\* the error a mark is to end with: the course is looked up first, the pairs
\* are taken in the order given, and a pair is checked for its status, then
\* its roll, then the enrollment
FirstFailure(s, course_code, marks) ==
    LET failing == {i \in DOMAIN marks : Fails(s, course_code, marks[i]) # {}}
        first == Fails(s, course_code, marks[Min(failing)])
    IN  IF \A c \in s.courses : c.code # course_code THEN "CourseNotFound"
        ELSE IF failing = {} THEN "ok"
        ELSE IF "BadStatus" \in first THEN "BadStatus"
        ELSE IF "UnknownRoll" \in first THEN "UnknownRoll"
        ELSE "NotEnrolled"

Init ==
    /\ db = EmptyDb
    /\ voc \in Vocabularies
    /\ last = Outcome("init-db", EmptyDb, [db |-> EmptyDb, err |-> "ok"])

AddStudentCmd ==
    \E a \in voc.students :
        \E r \in {add_student(db, a[1], a[2], a[3])} :
            /\ db' = r.db
            /\ last' = Outcome("add-student", db, r)
            /\ UNCHANGED voc

AddCourseCmd ==
    \E a \in voc.courses :
        \E r \in {add_course(db, a[1], a[2], a[3])} :
            /\ db' = r.db
            /\ last' = Outcome("add-course", db, r)
            /\ UNCHANGED voc

EnrollCmd ==
    \E roll \in RollArgs(voc), code \in CodeArgs(voc) :
        \E r \in {enroll_student(db, roll, code)} :
            /\ db' = r.db
            /\ last' = Outcome("enroll", db, r)
            /\ UNCHANGED voc

MarkCmd ==
    /\ db.seq.sessions < MaxSessionId
    /\ \E m \in MarkArgs(voc), now \in Clock :
        \E r \in {mark_attendance(db, m[1], m[2], m[3], m[4], m[5], m[6], now)} :
            /\ db' = r.db
            /\ last' = [Outcome("mark", db, r) EXCEPT
                            !.session_id = r.session_id,
                            !.student_id = r.student_id,
                            !.rolled_back = r.rolled_back,
                            !.marked = IF r.err = "ok" THEN LastMarks(db, m[3]) ELSE {},
                            !.repeats = Repeats(m[3]),
                            !.unenrolled = NamesUnenrolled(db, m[1], m[3]),
                            !.given = <<m[5], m[6]>>,
                            !.invalid = Invalid(m[3]),
                            !.expected = FirstFailure(db, m[1], m[3])]
            /\ UNCHANGED voc

ReportCourseCmd ==
    \E code \in CodeArgs(voc) :
        \E r \in {fetch_course_stats(db, code)} :
            /\ last' = Outcome("report-course", db, [db |-> db, err |-> r.err])
            /\ UNCHANGED <<db, voc>>

ReportStudentCmd ==
    \E roll \in RollArgs(voc) :
        \E r \in {report_student(db, roll)} :
            /\ last' = Outcome("report-student", db, [db |-> db, err |-> r.err])
            /\ UNCHANGED <<db, voc>>

ReportDailyCmd ==
    \E d \in ReportDates, code \in CourseFilters(voc) :
        \E r \in {report_daily(db, d, code)} :
            /\ last' = Outcome("report-daily", db, [db |-> db, err |-> r.err])
            /\ UNCHANGED <<db, voc>>

ExportCmd ==
    /\ voc.transfer
    /\ last' = Outcome("export-csv", db, [db |-> db, err |-> "ok"])
    /\ UNCHANGED <<db, voc>>

ImportCmd ==
    /\ voc.transfer
    /\ \E a \in ImportArgs(db) :
        \E r \in {import_csv(db, a[1], a[2])} :
            /\ db' = r.db
            /\ last' = Outcome("import-csv", db, r)
            /\ UNCHANGED voc

Next ==
    \/ AddStudentCmd
    \/ AddCourseCmd
    \/ EnrollCmd
    \/ MarkCmd
    \/ ReportCourseCmd
    \/ ReportStudentCmd
    \/ ReportDailyCmd
    \/ ExportCmd
    \/ ImportCmd

Spec == Init /\ [][Next]_vars

\* the commands without the CSV side door
NextOps ==
    \/ AddStudentCmd
    \/ AddCourseCmd
    \/ EnrollCmd
    \/ MarkCmd
    \/ ReportCourseCmd
    \/ ReportStudentCmd
    \/ ReportDailyCmd

SpecOps == Init /\ [][NextOps]_vars

----------------------------------------------------------------------------
(* Properties *)

AttendanceOf(session_id, student_id) ==
    {a \in db.attendance : a.session_id = session_id /\ a.student_id = student_id}

SessionCourse(session_id) ==
    {se.course_id : se \in {x \in db.sessions : x.id = session_id}}

MarkOk == last.cmd = "mark" /\ last.err = "ok"
MarkFailed == last.cmd = "mark" /\ last.err # "ok"

\* C1: the attendance table holds at most one row per (session, student),
\* and after a successful mark every student named in the batch has, in the
\* resolved session, the status of the last pair that named the student.
C1_LastWriteWins ==
    /\ \A a, b \in db.attendance :
          a.session_id = b.session_id /\ a.student_id = b.student_id => a = b
    /\ MarkOk =>
          \A p \in last.marked :
              {a.status : a \in AttendanceOf(last.session_id, p[1])} = {p[2]}

\* C1 witness: a successful batch that named one roll twice with different
\* statuses, sent to a session that already existed
C1_Witness ==
    /\ MarkOk
    /\ last.repeats
    /\ "sessions" \notin last.touched
    /\ "attendance" \in last.touched

\* the sessions of a course on a date with a start-time
SessionsAt(s, course_id, session_date, start_time) ==
    {se \in s.sessions :
        /\ se.course_id = course_id
        /\ se.session_date = session_date
        /\ se.start_time = start_time}

\* C2: with a start-time, the sessions table never holds two rows for one
\* (course, date, start-time), and resolving the same triple a second time,
\* whatever end-time and topic are given, returns the same identifier and
\* leaves exactly one row for the triple.
C2_SameSessionReused ==
    /\ \A a, b \in db.sessions :
          (/\ a.start_time # None
           /\ a.course_id = b.course_id
           /\ a.session_date = b.session_date
           /\ a.start_time = b.start_time) => a = b
    /\ \A code \in CodeArgs(voc), d \in Dates, x \in voc.sessions, y \in voc.sessions :
          LET e1 == ensure_course_session(db, code, d, x[1], x[2], x[3])
              e2 == ensure_course_session(e1.db, code, d, x[1], y[2], y[3])
          IN  (x[1] # None /\ e1.err = "ok") =>
                  /\ e2.err = "ok"
                  /\ e2.session_id = e1.session_id
                  /\ \E c \in db.courses :
                        /\ c.code = code
                        /\ Cardinality(SessionsAt(e2.db, c.id, d, x[1])) = 1
    /\ (MarkOk \/ MarkFailed) /\ last.session_id # NoRow =>
          \E se \in db.sessions : se.id = last.session_id

\* C2 witness: a mark with a start-time that found its session already there
C2_Witness ==
    /\ last.cmd = "mark"
    /\ "sessions" \notin last.touched
    /\ \E se \in db.sessions : se.id = last.session_id /\ se.start_time # None

\* C3: at most one session of a course on a date has no start-time.
C3_NoStartSingleton ==
    \A a, b \in db.sessions :
        (/\ a.start_time = None
         /\ b.start_time = None
         /\ a.course_id = b.course_id
         /\ a.session_date = b.session_date) => a = b

C5_AllOrNothing ==
    MarkFailed => "attendance" \notin last.touched

\* C5 witness: a mark failed on a later pair, with upserts of earlier pairs
\* pending
C5_Witness ==
    /\ MarkFailed
    /\ last.rolled_back
    /\ db.attendance # {}

\* the attendance rows of a student with a status in sessions of a course
InCourse(student_id, course_id, status) ==
    {a \in db.attendance :
        /\ a.student_id = student_id
        /\ a.status = status
        /\ course_id \in SessionCourse(a.session_id)}

\* C6: in the course report every count of a student counts only the rows
\* in sessions of that course, so the three counts sum to at most the
\* number of sessions of the course.
C6_CountsOnlyThisCourse ==
    \A c \in db.courses :
        LET r == fetch_course_stats(db, c.code)
        IN  \A i \in DOMAIN r.rows :
                \A st \in {x \in db.students : x.roll = r.rows[i].roll} :
                    /\ r.rows[i].present = Cardinality(InCourse(st.id, c.id, "P"))
                    /\ r.rows[i].absent = Cardinality(InCourse(st.id, c.id, "A"))
                    /\ r.rows[i].late = Cardinality(InCourse(st.id, c.id, "L"))
                    /\ r.rows[i].present + r.rows[i].absent + r.rows[i].late
                           <= r.total_sessions

\* C7: the export of the store, imported into an empty store, gives the
\* same rows in each of the five tables.
C7_ExportImportRoundTrip ==
    LET r == import_csv(EmptyDb, export_csv(db), FileNames)
    IN  /\ r.err = "ok"
        /\ \A f \in FileNames : r.db[f] = db[f]

\* C8: every enrollment row occurs once; an enroll that is repeated succeeds
\* and changes nothing; an enroll fails exactly when the roll or the code
\* does not resolve, with NotFound and no table changed.
C8_EnrollIdempotent ==
    /\ \A e \in BagToSet(db.enrollments) : CopiesIn(e, db.enrollments) = 1
    /\ \A roll \in RollArgs(voc), code \in CodeArgs(voc) :
          LET r1 == enroll_student(db, roll, code)
              r2 == enroll_student(r1.db, roll, code)
              known == /\ \E st \in db.students : st.roll = roll
                       /\ \E c \in db.courses : c.code = code
          IN  /\ known <=> r1.err = "ok"
              /\ r1.err = "ok" => r2.err = "ok" /\ r2.db = r1.db
              /\ r1.err # "ok" =>
                    r1.err \in {"StudentNotFound", "CourseNotFound"} /\ r1.db = db
    /\ (last.cmd = "enroll" /\ last.err # "ok") => last.touched = {}

\* C8 witness: an enroll of a pair already enrolled succeeded and changed
\* nothing
C8_Witness ==
    /\ last.cmd = "enroll"
    /\ last.err = "ok"
    /\ last.touched = {}
    /\ BagToSet(db.enrollments) # {}

\* C9: rolls and course codes are unique; add-student with a roll that
\* exists, and add-course with a code that exists, end with the integrity
\* error, exit code 2, and change no table.
C9_DuplicateRejected ==
    /\ \A a, b \in db.students : a.roll = b.roll => a = b
    /\ \A a, b \in db.courses : a.code = b.code => a = b
    /\ \A a \in voc.students :
          (\E st \in db.students : st.roll = a[1]) =>
              LET r == add_student(db, a[1], a[2], a[3])
              IN  r.err = "IntegrityError" /\ ExitCode(r.err) = 2 /\ r.db = db
    /\ \A a \in voc.courses :
          (\E c \in db.courses : c.code = a[1]) =>
              LET r == add_course(db, a[1], a[2], a[3])
              IN  r.err = "IntegrityError" /\ ExitCode(r.err) = 2 /\ r.db = db
    /\ (last.cmd \in {"add-student", "add-course"} /\ last.err # "ok") =>
          last.err = "IntegrityError" /\ last.touched = {}

\* C9 witness: an add-student was refused while students were stored
C9_Witness ==
    /\ last.cmd = "add-student"
    /\ last.err = "IntegrityError"
    /\ db.students # {}

\* C10: without import, the student of every attendance row is enrolled in
\* the course of the row's session.
C10_AttendanceImpliesEnrolled ==
    \A a \in db.attendance :
        \E se \in db.sessions :
            /\ se.id = a.session_id
            /\ BagIn([student_id |-> a.student_id, course_id |-> se.course_id],
                     db.enrollments)

\* C10 witness: attendance is stored for a student of a course with a second
\* course in the store
C10_Witness ==
    /\ db.attendance # {}
    /\ Cardinality(db.courses) = 2

Rounded(h, attended, total_sessions) ==
    IF total_sessions = 0 THEN h = 0
    ELSE /\ 2 * (h * total_sessions - attended * 10000) <= total_sessions
         /\ 2 * (attended * 10000 - h * total_sessions) <= total_sessions

SessionsOf(course_id) == {se \in db.sessions : se.course_id = course_id}

\* C12: in the course report and in the student report every percentage
\* is (present + late) / total_sessions * 100 rounded to two decimals, with
\* total_sessions the number of sessions of the course and 0.00 when there
\* are none; after CS001:P, CS002:A, CS003:L were marked in the one session
\* of CSE101 the course report shows 1 session, 3 students and 100.00, 0.00
\* and 100.00.
C12_Percentage ==
    /\ \A c \in db.courses :
          LET r == fetch_course_stats(db, c.code)
          IN  /\ r.total_sessions = Cardinality(SessionsOf(c.id))
              /\ \A i \in DOMAIN r.rows :
                    Rounded(r.rows[i].percentage,
                            r.rows[i].present + r.rows[i].late, r.total_sessions)
    /\ \A st \in db.students :
          LET r == report_student(db, st.roll)
          IN  \A i \in DOMAIN r.rows :
                  \A c \in {x \in db.courses : x.code = r.rows[i].code} :
                      Rounded(r.rows[i].percentage,
                              r.rows[i].present + r.rows[i].late,
                              Cardinality(SessionsOf(c.id)))
    /\ (voc = Register /\ MarkOk) =>
          LET r == fetch_course_stats(db, "CSE101")
          IN  /\ r.total_sessions = 1
              /\ r.total_students = 3
              /\ [i \in DOMAIN r.rows |-> <<r.rows[i].roll, r.rows[i].percentage>>]
                    = <<(<<"CS001", 10000>>), (<<"CS002", 0>>), (<<"CS003", 10000>>)>>

\* C12 witness: the three of the register were marked P, A, L in one batch
C12_Witness ==
    /\ voc = Register
    /\ MarkOk
    /\ {a.status : a \in db.attendance} = {"P", "A", "L"}

\* the students enrolled in a course
EnrolledIn(course_id) ==
    {st \in db.students :
        BagIn([student_id |-> st.id, course_id |-> course_id], db.enrollments)}

\* C13: the course report fails with NotFound exactly for a code that is
\* not stored; for a stored course it has one row per enrolled student and
\* no other row, with the student's name, in ascending order of roll, zero
\* counts for a student without attendance rows, and a student count that
\* is the number of enrollments of the course.
C13_CourseReportRows ==
    \A code \in CodeArgs(voc) :
        LET r == fetch_course_stats(db, code)
            found == {c \in db.courses : c.code = code}
        IN  /\ found = {} <=> r.err = "CourseNotFound"
            /\ found = {} => ExitCode(r.err) # 0
            /\ \A c \in found :
                  /\ r.err = "ok"
                  /\ Len(r.rows) = Cardinality(EnrolledIn(c.id))
                  /\ {<<r.rows[i].roll, r.rows[i].name>> : i \in DOMAIN r.rows}
                        = {<<st.roll, st.name>> : st \in EnrolledIn(c.id)}
                  /\ \A i, j \in DOMAIN r.rows :
                        i < j => StrRank(r.rows[i].roll) < StrRank(r.rows[j].roll)
                  /\ r.total_students =
                        Cardinality({e \in BagToSet(db.enrollments) : e.course_id = c.id})
                  /\ \A i \in DOMAIN r.rows, st \in EnrolledIn(c.id) :
                        (/\ st.roll = r.rows[i].roll
                         /\ \A a \in db.attendance : a.student_id # st.id) =>
                            /\ r.rows[i].present = 0
                            /\ r.rows[i].absent = 0
                            /\ r.rows[i].late = 0
                            /\ r.rows[i].percentage = 0

\* C13 witness: a course report of a course with two enrolled students, the
\* one of the lower roll added later and without attendance, the other
\* marked
C13_Witness ==
    /\ last.cmd = "report-course"
    /\ last.err = "ok"
    /\ \E c \in db.courses : \E a, b \in EnrolledIn(c.id) :
          /\ StrRank(a.roll) < StrRank(b.roll)
          /\ a.id > b.id
          /\ \A x \in db.attendance : x.student_id # a.id
          /\ \E x \in db.attendance : x.student_id = b.id

\* the courses a student is enrolled in
CoursesOf(student_id) ==
    {c \in db.courses :
        BagIn([student_id |-> student_id, course_id |-> c.id], db.enrollments)}

\* C14: the student report fails with NotFound exactly for a roll that is
\* not stored; for a stored student it has one row per course the student
\* is enrolled in and no other row, in ascending order of course code, with
\* the counts of the student's attendance rows of each status in sessions
\* of that course and the percentage over the sessions of that course.
C14_StudentReportRows ==
    \A roll \in RollArgs(voc) :
        LET r == report_student(db, roll)
            found == {st \in db.students : st.roll = roll}
        IN  /\ found = {} <=> r.err = "StudentNotFound"
            /\ found = {} => ExitCode(r.err) # 0
            /\ \A st \in found :
                  /\ r.err = "ok"
                  /\ Len(r.rows) = Cardinality(CoursesOf(st.id))
                  /\ {r.rows[i].code : i \in DOMAIN r.rows}
                        = {c.code : c \in CoursesOf(st.id)}
                  /\ \A i, j \in DOMAIN r.rows :
                        i < j => StrRank(r.rows[i].code) < StrRank(r.rows[j].code)
                  /\ \A i \in DOMAIN r.rows, c \in CoursesOf(st.id) :
                        c.code = r.rows[i].code =>
                            /\ r.rows[i].present = Cardinality(InCourse(st.id, c.id, "P"))
                            /\ r.rows[i].absent = Cardinality(InCourse(st.id, c.id, "A"))
                            /\ r.rows[i].late = Cardinality(InCourse(st.id, c.id, "L"))
                            /\ Rounded(r.rows[i].percentage,
                                       Cardinality(InCourse(st.id, c.id, "P"))
                                           + Cardinality(InCourse(st.id, c.id, "L")),
                                       Cardinality(SessionsOf(c.id)))

\* C14 witness: a student report of a student enrolled in two courses, the
\* one of the lower code added later, with attendance in sessions of both
C14_Witness ==
    /\ last.cmd = "report-student"
    /\ last.err = "ok"
    /\ \E st \in db.students : \E a, b \in CoursesOf(st.id) :
          /\ StrRank(a.code) < StrRank(b.code)
          /\ a.id > b.id
          /\ \E s1 \in SessionsOf(a.id), s2 \in SessionsOf(b.id) :
                /\ AttendanceOf(s1.id, st.id) # {}
                /\ AttendanceOf(s2.id, st.id) # {}

ImportRefused(err) ==
    /\ last.cmd = "import-csv"
    /\ last.err = err

\* C15: in every state, also after import-csv, every enrollment names a
\* stored student and a stored course, every session a stored course and
\* every attendance row a stored session and a stored student; an import
\* that meets a row naming a parent that is not stored ends with the
\* integrity error, exit code 2, and changes no table.
C15_ReferentialIntegrity ==
    /\ \A e \in BagToSet(db.enrollments) :
          /\ \E st \in db.students : st.id = e.student_id
          /\ \E c \in db.courses : c.id = e.course_id
    /\ \A se \in db.sessions : \E c \in db.courses : c.id = se.course_id
    /\ \A a \in db.attendance :
          /\ \E se \in db.sessions : se.id = a.session_id
          /\ \E st \in db.students : st.id = a.student_id
    /\ ImportRefused("ForeignKeyFailed") =>
          ExitCode(last.err) = 2 /\ last.touched = {}

\* C15 witness: an import was refused for a foreign key while enrollments,
\* sessions and attendance were stored
C15_Witness ==
    /\ ImportRefused("ForeignKeyFailed")
    /\ db.enrollments # EmptyBag
    /\ db.attendance # {}

\* C16: in every state, also after import-csv, every stored status is P, A
\* or L; a mark carrying another status is refused by one of the checks of
\* mark (SystemExit, exit code 1) and leaves the attendance table as it
\* was, and the check that refuses it is the one on the status when the
\* pair carrying it is the first pair of the batch to fail a check and the
\* course is stored; an import of a row with another status ends with the
\* integrity error, exit code 2, and changes no table.
C16_StatusDomain ==
    /\ \A a \in db.attendance : a.status \in {"P", "A", "L"}
    /\ (last.cmd = "mark" /\ last.invalid) =>
          /\ last.err \in {"BadStatus", "UnknownRoll", "NotEnrolled", "CourseNotFound"}
          /\ ExitCode(last.err) = 1
          /\ "attendance" \notin last.touched
    /\ (last.cmd = "mark" /\ last.expected = "BadStatus") =>
          last.err = "BadStatus" /\ last.invalid
    /\ ImportRefused("CheckFailed") =>
          ExitCode(last.err) = 2 /\ last.touched = {}

\* C16 witness: a mark ended with the status validation error after an
\* upsert of the same batch had been made, attendance being stored
C16_Witness ==
    /\ last.cmd = "mark"
    /\ last.err = "BadStatus"
    /\ last.rolled_back
    /\ db.attendance # {}

\* C17: the session resolver and mark, given a course code that is not
\* stored, end with NotFound (exit code 1) and leave the store as it was:
\* no table changes and no session id is drawn.
C17_UnknownCourse ==
    /\ \A code \in CodeArgs(voc), d \in Dates, x \in voc.sessions :
          (\A c \in db.courses : c.code # code) =>
              LET e == ensure_course_session(db, code, d, x[1], x[2], x[3])
              IN  /\ e.err = "CourseNotFound"
                  /\ e.session_id = NoRow
                  /\ e.db = db
    /\ \A m \in MarkArgs(voc), now \in Clock :
          (\A c \in db.courses : c.code # m[1]) =>
              LET r == mark_attendance(db, m[1], m[2], m[3], m[4], m[5], m[6], now)
              IN  /\ r.err = "CourseNotFound"
                  /\ ExitCode(r.err) = 1
                  /\ r.db = db
    /\ (last.cmd = "mark" /\ last.expected = "CourseNotFound") =>
          /\ last.err = "CourseNotFound"
          /\ last.session_id = NoRow
          /\ last.touched = {}

\* C17 witness: a mark for a course that is not stored was refused while a
\* course, its sessions and attendance were stored
C17_Witness ==
    /\ last.cmd = "mark"
    /\ last.err = "CourseNotFound"
    /\ db.courses # {}
    /\ db.sessions # {}
    /\ db.attendance # {}

\* the sessions on a date, of the course of the filter when one is given
SessionsOn(d, filter) ==
    {se \in db.sessions :
        /\ se.session_date = d
        /\ filter # None => \E c \in db.courses : c.code = filter /\ c.id = se.course_id}

\* the attendance rows of a session
MarkedIn(session_id) == {a \in db.attendance : a.session_id = session_id}

\* the place of the stored start-time of the session of a row of the daily
\* report, and of its roll, in the order of SQLite: NULL, then text
StartPlace(x) ==
    SqlRank((CHOOSE se \in db.sessions : se.id = x.sid).start_time)
RollPlace(x) == IF x.roll = "" THEN 0 ELSE StrRank(x.roll)

\* row x of the daily report does not come after row y
DailyOrder(x, y) ==
    \/ StrRank(x.code) < StrRank(y.code)
    \/ /\ x.code = y.code
       /\ \/ StartPlace(x) < StartPlace(y)
          \/ /\ StartPlace(x) = StartPlace(y)
             /\ RollPlace(x) <= RollPlace(y)

\* C18: the daily report has no rows, and no error, for a date without
\* sessions; for every session on the date, of the course of the filter
\* when one is given, it has one row with blank roll, name and status when
\* the session has no attendance rows and else one row per attendance row,
\* with the roll, name and status of the marked student; it has no other
\* row, and the rows are ordered by course code, stored start-time and
\* roll, an absent value first.
C18_DailyReportRows ==
    \A d \in ReportDates, filter \in CourseFilters(voc) :
        LET r == report_daily(db, d, filter)
            S == SessionsOn(d, filter)
            Rows(se) == {i \in DOMAIN r.rows : r.rows[i].sid = se.id}
        IN  IF filter # None /\ \A c \in db.courses : c.code # filter
            THEN r.err = "CourseNotFound"
            ELSE /\ r.err = "ok"
                 /\ S = {} => r.rows = <<>>
                 /\ \A i \in DOMAIN r.rows :
                       /\ \E se \in S : se.id = r.rows[i].sid
                       /\ filter # None => r.rows[i].code = filter
                 /\ \A se \in S :
                       /\ \A i \in Rows(se) :
                             /\ \E c \in db.courses :
                                   c.id = se.course_id /\ c.code = r.rows[i].code
                             /\ r.rows[i].start_time = OrBlank(se.start_time)
                             /\ r.rows[i].topic = OrBlank(se.topic)
                       /\ MarkedIn(se.id) = {} =>
                             /\ Cardinality(Rows(se)) = 1
                             /\ \A i \in Rows(se) :
                                   /\ r.rows[i].roll = ""
                                   /\ r.rows[i].name = ""
                                   /\ r.rows[i].status = ""
                       /\ MarkedIn(se.id) # {} =>
                             /\ Cardinality(Rows(se)) = Cardinality(MarkedIn(se.id))
                             /\ {<<r.rows[i].roll, r.rows[i].name, r.rows[i].status>> :
                                    i \in Rows(se)}
                                  = UNION {{<<st.roll, st.name, a.status>> :
                                              st \in {x \in db.students :
                                                         x.id = a.student_id}} :
                                           a \in MarkedIn(se.id)}
                 /\ \A i, j \in DOMAIN r.rows :
                       i < j => DailyOrder(r.rows[i], r.rows[j])

\* C18 witness: a daily report of a date with a session without attendance
\* rows and a session with two, the student of the lower roll added later
C18_Witness ==
    /\ last.cmd = "report-daily"
    /\ last.err = "ok"
    /\ \E s1, s2 \in db.sessions :
          /\ MarkedIn(s1.id) = {}
          /\ Cardinality(MarkedIn(s2.id)) = 2
    /\ \E a, b \in db.students : StrRank(a.roll) < StrRank(b.roll) /\ a.id > b.id

\* C19: a mark for a stored course ends with the error of the first pair,
\* in the order given, that fails a check, and for that pair with the
\* error of the first check it fails in the order status, roll,
\* enrollment; it succeeds when no pair fails a check.
C19_ValidationOrder ==
    last.cmd = "mark" =>
        /\ last.err = last.expected
        /\ last.err = "BadStatus" => last.invalid
        /\ last.err = "UnknownRoll" => last.student_id = NoRow
        /\ last.err = "NotEnrolled" =>
              \E st \in db.students : st.id = last.student_id

\* C19 witness: a mark ended with the error of an unknown roll although a
\* later pair of the batch carried a status outside P, A, L
C19_Witness ==
    /\ last.cmd = "mark"
    /\ last.err = "UnknownRoll"
    /\ last.invalid

\* C20: a mark for a stored course that fails on a check of a pair leaves
\* the sessions table as it was.
C20_FailedMarkKeepsSessions ==
    (/\ last.cmd = "mark"
     /\ last.err \in {"BadStatus", "UnknownRoll", "NotEnrolled"}) =>
        "sessions" \notin last.touched

\* C21: for every student enrolled in a course, the present, absent and
\* late counts and the percentage of the student's row in the course report
\* of the course are those of the course's row in the student report of
\* the student.
C21_ReportsAgree ==
    \A c \in db.courses : \A st \in EnrolledIn(c.id) :
        LET rc == fetch_course_stats(db, c.code)
            rs == report_student(db, st.roll)
        IN  \A i \in DOMAIN rc.rows, j \in DOMAIN rs.rows :
                (rc.rows[i].roll = st.roll /\ rs.rows[j].code = c.code) =>
                    /\ rc.rows[i].present = rs.rows[j].present
                    /\ rc.rows[i].absent = rs.rows[j].absent
                    /\ rc.rows[i].late = rs.rows[j].late
                    /\ rc.rows[i].percentage = rs.rows[j].percentage

\* C22: an import from a directory that holds only students.csv, only
\* courses.csv or only sessions.csv of an export of the store leaves the
\* enrollments and the attendance rows as they were.
C22_SingleFileImportFrame ==
    \A f \in {"students", "courses", "sessions"} :
        LET r == import_csv(db, export_csv(db), {f})
        IN  /\ r.db.enrollments = db.enrollments
            /\ r.db.attendance = db.attendance

====
